---- MODULE Spec2Model ----
(***************************************************************************)
(* Model of the tempfile library (src/src/lib.rs): TempFileCore, TempFile, *)
(* ClosedTempFile, TempFileBuilder::file_path/build, and the filesystem     *)
(* primitives they call (File::create, File::open, fs::remove_file).        *)
(* An open File refers to a file, not to a path, so it stays usable after   *)
(* its path is unlinked.                                                    *)
(***************************************************************************)
EXTENDS Integers, Sequences, FiniteSets, TLC

\* ---------------------------------------------------------------- bounds
MaxHandles == 2
MaxLen == 1
MaxByte == 1
MaxName == 1

Handles == 1..MaxHandles
Bytes == 1..MaxByte
\* file names are strings, written as sequences of tokens
Names == {[k \in 1..i |-> "a"] : i \in 1..MaxName}
Dirs == {"tmp", "nodir"}
ExistingDirs == {"tmp"}
Paths == [dir : Dirs, name : Names]
GoodPaths == {p \in Paths : p.dir \in ExistingDirs}
NoPath == [dir |-> "", name |-> <<>>]
ExtData == {<<>>} \cup {<<b>> : b \in Bytes}

\* what the builder is fed: file names with and without an extension and a
\* dot file, extensions, and the tokens the name generator can draw
InputNames == {<<"a">>, <<"a", ".", "b">>, <<".", "a">>}
Exts == {<<>>, <<"b">>, <<"c">>}
Uuids == {"u1", "u2"}
GenNames == {<<"temp", u>> : u \in Uuids}

\* every path the file system is asked about
FsPaths == [dir : Dirs, name : Names \cup InputNames \cup GenNames]

VARIABLES files, orphans, handles, removes, panicked, hist, ext, last,
          builder, blast
vars == <<files, orphans, handles, removes, panicked, hist, ext, last,
          builder, blast>>
bvars == <<builder, blast>>

\* ------------------------------------------------------------ the structs
\* Option<File>: an open File refers to the file now at its path (orphan = 0)
\* or to a file that was unlinked while open; unlinked files are named by the
\* smallest handle that still holds them open.
None == [some |-> FALSE, mode |-> "-", orphan |-> 0, pos |-> 0]
\* mutant: the File has been taken out of the Option
SomeTaken(mode) == None

Some(mode) == [some |-> TRUE, mode |-> mode, orphan |-> 0, pos |-> 0]

TempFileCore(p) == [file_path |-> p]
TempFile(f, core) == [state |-> "open", file |-> f, core |-> core]
\* mutant: close builds a new core instead of moving the old one
ClosedTempFileFreshCore(core) ==
    [state |-> "closed", file |-> None, core |-> TempFileCore(NoPath)]

ClosedTempFile(core) == [state |-> "closed", file |-> None, core |-> core]
Unused == [state |-> "unused", file |-> None, core |-> TempFileCore(NoPath)]
Gone(core) == [state |-> "gone", file |-> None, core |-> core]

\* ------------------------------------------------------- filesystem model
NoFile == [origin |-> "none", data |-> <<>>]

Exists(fs, p) == fs[p].origin # "none"

Min(S) == CHOOSE x \in S : \A y \in S : x <= y

\* the open Files that refer to the file now at path p
Holders(hs, p) ==
    {h \in Handles : hs[h].file.some /\ hs[h].file.orphan = 0
                     /\ hs[h].core.file_path = p}

\* write one byte at offset pos (0-based), zero-filling a hole
WriteAt(data, pos, b) ==
    [i \in 1..(IF pos + 1 > Len(data) THEN pos + 1 ELSE Len(data)) |->
        IF i = pos + 1 THEN b
        ELSE IF i <= Len(data) THEN data[i] ELSE 0]

\* std::fs::File::create: write-only, create if missing, truncate if present
FileCreate(fs, p) ==
    IF p.dir \notin ExistingDirs
    THEN [res |-> "NotFound", files |-> fs]
    ELSE IF Exists(fs, p)
    THEN [res |-> "Ok", files |-> [fs EXCEPT ![p].data = <<>>]]
    ELSE [res |-> "Ok",
          files |-> [fs EXCEPT ![p] = [origin |-> "lib", data |-> <<>>]]]

\* mutant: open with the create flag set
FileOpenCreating(fs, p) ==
    IF Exists(fs, p) THEN [res |-> "Ok", files |-> fs]
    ELSE IF p.dir \notin ExistingDirs THEN [res |-> "NotFound", files |-> fs]
    ELSE [res |-> "Ok",
          files |-> [fs EXCEPT ![p] = [origin |-> "lib", data |-> <<>>]]]

\* std::fs::File::open: read-only, never creates
FileOpen(fs, p) ==
    IF Exists(fs, p) THEN [res |-> "Ok", files |-> fs]
    ELSE [res |-> "NotFound", files |-> fs]

\* unlinking path p: the name goes away at once, the file lives on for the
\* Files that hold it open
Unlink(fs, orph, hs, p) ==
    LET hold == Holders(hs, p) IN
    IF hold = {}
    THEN [files |-> [fs EXCEPT ![p] = NoFile], orphans |-> orph,
          handles |-> hs]
    ELSE [files |-> [fs EXCEPT ![p] = NoFile],
          orphans |-> [orph EXCEPT ![Min(hold)] = fs[p]],
          handles |-> [h \in Handles |->
              IF h \in hold THEN [hs[h] EXCEPT !.file.orphan = Min(hold)]
              ELSE hs[h]]]

\* mutant: the path is never unlinked
RemoveFileSkipped(fs, orph, hs, p) ==
    [res |-> "Ok", files |-> fs, orphans |-> orph, handles |-> hs]

\* std::fs::remove_file: unlink the path; an absent path is an error
RemoveFile(fs, orph, hs, p) ==
    IF Exists(fs, p)
    THEN [res |-> "Ok"] @@ Unlink(fs, orph, hs, p)
    ELSE [res |-> "NotFound", files |-> fs, orphans |-> orph, handles |-> hs]

\* closing the File of handle h: an unlinked file is freed with its last File
CloseFile(orph, hs, h) ==
    LET k == hs[h].file.orphan
        rest == {g \in Handles \ {h} : hs[g].file.some /\ hs[g].file.orphan = k}
    IN IF k # h
       THEN [orphans |-> orph, handles |-> hs]
       ELSE IF rest = {}
       THEN [orphans |-> [orph EXCEPT ![h] = NoFile], handles |-> hs]
       ELSE [orphans |-> [orph EXCEPT ![h] = NoFile, ![Min(rest)] = orph[h]],
             handles |-> [g \in Handles |->
                 IF g \in rest THEN [hs[g] EXCEPT !.file.orphan = Min(rest)]
                 ELSE hs[g]]]

\* the bytes of the file that the File of handle h refers to
FileData(fs, orph, hs, h) ==
    IF hs[h].file.orphan = 0 THEN fs[hs[h].core.file_path].data
    ELSE orph[hs[h].file.orphan].data

Live(h) == handles[h].state \in {"open", "closed"}
file_path(h) == handles[h].core.file_path

\* what the caller remembers about a live handle: where it was created, the
\* bytes it wrote through it, whether it was ever reopened
NewHist(p) == [created |-> p, written |-> <<>>, reopened |-> FALSE]

\* what actors outside the library did to a path since a handle bound to it
\* has been live: "none", "changed" or "deleted"
Owned(hs, p) == \E h \in Handles :
    hs[h].state \in {"open", "closed"} /\ hs[h].core.file_path = p
Forget(hs, e) == [p \in FsPaths |-> IF Owned(hs, p) THEN e[p] ELSE "none"]

\* the most recent call and what it returned to its caller: existed is
\* whether a file was at the path when the call began, rm the result of the
\* remove_file it issued ("-" if none), pos the File's offset when a read
\* began, data the bytes read or written; reopened and ext are hist and ext
\* of a handle at the moment it died, wasOpen whether it died as a TempFile,
\* held whether it still held its File when remove_file was issued
Event(op, h, p, res) ==
    [op |-> op, h |-> h, path |-> p, res |-> res, existed |-> FALSE,
     rm |-> "-", pos |-> 0, data |-> <<>>, reopened |-> FALSE,
     ext |-> "none", wasOpen |-> FALSE, held |-> FALSE]

\* ---------------------------------------------------- std::path on strings
Sep == "/"

\* index of the last token of s equal to c, 0 if there is none
LastIndex(s, c) ==
    IF \E i \in 1..Len(s) : s[i] = c
    THEN CHOOSE i \in 1..Len(s) : s[i] = c /\ \A j \in (i + 1)..Len(s) : s[j] # c
    ELSE 0

\* a path without its trailing separator
Trimmed(s) ==
    IF Len(s) > 0 /\ s[Len(s)] = Sep THEN SubSeq(s, 1, Len(s) - 1) ELSE s

\* Path::file_name: the last component, <<>> for None (no component, or "..")
FileName(s) ==
    LET t == Trimmed(s)
        n == SubSeq(t, LastIndex(t, Sep) + 1, Len(t))
    IN IF n = <<".", ".">> THEN <<>> ELSE n

\* Path::parent: the path without its last component
Parent(s) ==
    LET t == Trimmed(s) IN SubSeq(t, 1, LastIndex(t, Sep) - 1)

\* Path::file_stem of a file name: up to the last dot, the whole name when
\* there is no dot or the only dot leads the name
FileStem(n) ==
    IF LastIndex(n, ".") <= 1 THEN n ELSE SubSeq(n, 1, LastIndex(n, ".") - 1)

\* Path::extension of a file name: after the last dot, <<>> for None
Extension(n) ==
    IF LastIndex(n, ".") <= 1 THEN <<>>
    ELSE SubSeq(n, LastIndex(n, ".") + 1, Len(n))

\* PathBuf::push of a relative component
Push(s, n) ==
    IF s = <<>> THEN n
    ELSE IF s[Len(s)] = Sep THEN s \o n
    ELSE s \o <<Sep>> \o n

\* Path::with_file_name: a new PathBuf with the last component replaced
WithFileName(s, n) ==
    Push(IF FileName(s) # <<>> THEN Parent(s) ELSE s, n)

\* Path::with_extension: a new PathBuf with the extension replaced
WithExtension(s, e) ==
    IF FileName(s) = <<>> THEN s
    ELSE LET stem == Push(Parent(s), FileStem(FileName(s))) IN
         IF e = <<>> THEN stem ELSE stem \o <<".">> \o e

\* the directory entry a path string names
Resolve(s) ==
    [dir |-> IF Len(Parent(s)) = 1 THEN Parent(s)[1] ELSE "",
     name |-> FileName(s)]

\* env::temp_dir()
temp_dir == <<"tmp">>

\* create_tmp_file_name: the prefix followed by a random uuid, no separators
create_tmp_file_name(prefix, uuid) == <<prefix, uuid>>

\* TempFileBuilder: file_path is a PathBuf, a string of tokens; live is
\* false before new() and after build(self) has consumed the builder
TempFileBuilder(s) == [live |-> TRUE, file_path |-> s]
NoBuilder == [live |-> FALSE, file_path |-> <<>>]

\* the most recent call on the builder: its argument and the builder's path
\* when the call began
BuilderEvent(op, arg, before) == [op |-> op, arg |-> arg, before |-> before]

Init ==
    /\ files = [p \in FsPaths |-> NoFile]
    /\ orphans = [h \in Handles |-> NoFile]
    /\ handles = [h \in Handles |-> Unused]
    /\ removes = [h \in 0..MaxHandles |-> 0]
    /\ panicked = FALSE
    /\ hist = [h \in Handles |-> NewHist(NoPath)]
    /\ ext = [p \in FsPaths |-> "none"]
    /\ last = Event("init", 0, NoPath, "Ok")
    /\ builder = NoBuilder
    /\ blast = BuilderEvent("init", <<>>, <<>>)

\* ------------------------------------------------------------- operations

\* mutant: the result of remove_file is unwrapped
SwallowUnwrapping(r) == r

\* `let _ = r`: the result of remove_file is discarded
Swallow(r) == "Ok"

\* mutant: core is declared before file, so remove_file runs while the File
\* is still open
core_dropCoreFirst(h, op, res) ==
    LET p == handles[h].core.file_path
        r == RemoveFile(files, orphans, handles, p)
        c == CloseFile(r.orphans, r.handles, h)
        hs == [c.handles EXCEPT ![h] = Gone(@.core)]
    IN /\ files' = r.files
       /\ orphans' = c.orphans
       /\ handles' = hs
       /\ removes' = [removes EXCEPT ![h] = @ + 1]
       /\ panicked' = (panicked \/ Swallow(r.res) # "Ok")
       /\ hist' = [hist EXCEPT ![h] = NewHist(p)]
       /\ ext' = Forget(hs, ext)
       /\ last' = [Event(op, h, p, IF Swallow(r.res) = "Ok" THEN res ELSE "panic")
                      EXCEPT !.rm = r.res, !.existed = Exists(files, p),
                             !.reopened = hist[h].reopened, !.ext = ext[p],
                             !.wasOpen = (handles[h].state = "open"),
                             !.held = handles[h].file.some]

\* The value owning handle h's core dies: in the drop glue of a TempFile or
\* ClosedTempFile (fields drop in declaration order: file, then core), or
\* inside a reopen whose open failed. Drop for TempFileCore removes the file.
\* res is what the enclosing call returns.
core_drop(h, op, res) ==
    LET p == handles[h].core.file_path
        c == CloseFile(orphans, handles, h)
        hs0 == [c.handles EXCEPT ![h].file = None]
        r == RemoveFile(files, c.orphans, hs0, p)
        hs == [r.handles EXCEPT ![h] = Gone(@.core)]
    IN /\ files' = r.files
       /\ orphans' = r.orphans
       /\ handles' = hs
       /\ removes' = [removes EXCEPT ![h] = @ + 1]
       /\ panicked' = (panicked \/ Swallow(r.res) # "Ok")
       /\ hist' = [hist EXCEPT ![h] = NewHist(p)]
       /\ ext' = Forget(hs, ext)
       /\ last' = [Event(op, h, p, IF Swallow(r.res) = "Ok" THEN res ELSE "panic")
                      EXCEPT !.rm = r.res, !.existed = Exists(files, p),
                             !.reopened = hist[h].reopened, !.ext = ext[p],
                             !.wasOpen = (handles[h].state = "open"),
                             !.held = hs0[h].file.some]

\* mutant: the core is built before File::create and dropped when it fails
from_pathCoreFirst(h, p) ==
    LET r == FileCreate(files, p) IN
    /\ handles[h].state = "unused"
    /\ \A g \in Handles : g < h => handles[g].state # "unused"
    /\ IF r.res = "Ok"
       THEN /\ files' = r.files
            /\ handles' = [handles EXCEPT
                   ![h] = TempFile(Some("w"), TempFileCore(p))]
            /\ hist' = [hist EXCEPT ![h] = NewHist(p)]
            /\ last' = [Event("create", h, p, "Ok")
                           EXCEPT !.existed = Exists(files, p)]
            /\ UNCHANGED <<orphans, removes>>
       ELSE LET d == RemoveFile(r.files, orphans, handles, p) IN
            /\ files' = d.files
            /\ orphans' = d.orphans
            /\ handles' = d.handles
            /\ removes' = [removes EXCEPT ![0] = 1]
            /\ last' = [Event("create", 0, p, r.res)
                           EXCEPT !.existed = Exists(files, p), !.rm = d.res]
            /\ UNCHANGED hist
    /\ UNCHANGED <<panicked, ext>>

\* TempFile::from_path(p); h is the slot the new value will occupy
from_path(h, p) ==
    LET r == FileCreate(files, p) IN
    /\ handles[h].state = "unused"
    /\ \A g \in Handles : g < h => handles[g].state # "unused"
    /\ files' = r.files
    /\ IF r.res = "Ok"
       THEN /\ handles' = [handles EXCEPT
                   ![h] = TempFile(Some("w"), TempFileCore(p))]
            /\ hist' = [hist EXCEPT ![h] = NewHist(p)]
            /\ last' = [Event("create", h, p, "Ok")
                           EXCEPT !.existed = Exists(files, p)]
       ELSE /\ UNCHANGED <<handles, hist>>
            /\ last' = [Event("create", 0, p, r.res)
                           EXCEPT !.existed = Exists(files, p)]
    /\ UNCHANGED <<orphans, removes, panicked, ext>>

\* TempFileBuilder::file_path(p) followed by build()
build(h, p) == from_path(h, p)

\* mutant: close hands a clone of the core to the result and drops its own
closeCloningCore(h) ==
    /\ handles[h].state = "open"
    /\ LET c == CloseFile(orphans, handles, h)
           hs == [c.handles EXCEPT ![h] = ClosedTempFile(@.core)]
           r == RemoveFile(files, c.orphans, hs, file_path(h))
       IN /\ files' = r.files
          /\ orphans' = r.orphans
          /\ handles' = r.handles
          /\ removes' = [removes EXCEPT ![h] = @ + 1]
    /\ last' = [Event("close", h, file_path(h), "Ok")
                   EXCEPT !.existed = Exists(files, file_path(h))]
    /\ UNCHANGED <<panicked, hist, ext>>

\* TempFile::close: self.file is dropped, self.core moves into the result
close(h) ==
    /\ handles[h].state = "open"
    /\ LET c == CloseFile(orphans, handles, h) IN
       /\ handles' = [c.handles EXCEPT ![h] = ClosedTempFile(@.core)]
       /\ orphans' = c.orphans
    /\ last' = [Event("close", h, file_path(h), "Ok")
                   EXCEPT !.existed = Exists(files, file_path(h))]
    /\ UNCHANGED <<files, removes, panicked, hist, ext>>

\* mutant: a failed reopen gives the closed handle back to the caller
reopenKeepingSelf(h) ==
    /\ handles[h].state = "closed"
    /\ LET r == FileOpen(files, file_path(h)) IN
       /\ files' = r.files
       /\ IF r.res = "Ok"
          THEN /\ handles' = [handles EXCEPT
                      ![h] = TempFile(Some("r"), @.core)]
               /\ hist' = [hist EXCEPT ![h].reopened = TRUE]
          ELSE UNCHANGED <<handles, hist>>
       /\ last' = [Event("reopen", h, file_path(h), r.res)
                      EXCEPT !.existed = Exists(files, file_path(h))]
    /\ UNCHANGED <<orphans, removes, panicked, ext>>

\* ClosedTempFile::reopen: on Ok the core moves into the new TempFile; on Err
\* the closure that captured self is dropped unused, which drops the core
reopen(h) ==
    /\ handles[h].state = "closed"
    /\ LET r == FileOpen(files, file_path(h)) IN
       IF r.res = "Ok"
       THEN /\ handles' = [handles EXCEPT
                   ![h] = TempFile(Some("r"), @.core)]
            /\ hist' = [hist EXCEPT ![h].reopened = TRUE]
            /\ files' = r.files
            /\ last' = [Event("reopen", h, file_path(h), "Ok")
                           EXCEPT !.existed = Exists(files, file_path(h))]
            /\ UNCHANGED <<orphans, removes, panicked, ext>>
       ELSE core_drop(h, "reopen", r.res)

\* a TempFile or ClosedTempFile goes out of scope
drop(h) ==
    /\ Live(h)
    /\ core_drop(h, "drop", "Ok")

\* io::Write::write through file_mut(): one byte at the File's offset;
\* file_mut() panics ("file must be valid") when the Option is None
write(h, b) ==
    /\ handles[h].state = "open"
    /\ LET f == handles[h].file
           d == WriteAt(FileData(files, orphans, handles, h), f.pos, b)
       IN
       /\ f.mode = "w" => f.pos < MaxLen
       /\ IF f.mode = "w"
          THEN /\ IF f.orphan = 0
                  THEN /\ files' = [files EXCEPT ![file_path(h)].data = d]
                       /\ UNCHANGED orphans
                  ELSE /\ orphans' = [orphans EXCEPT ![f.orphan].data = d]
                       /\ UNCHANGED files
               /\ handles' = [handles EXCEPT ![h].file.pos = @ + 1]
               /\ hist' = [hist EXCEPT ![h].written = Append(@, b)]
               /\ last' = [Event("write", h, file_path(h), "Ok")
                              EXCEPT !.data = <<b>>]
          ELSE /\ last' = Event("write", h, file_path(h),
                                IF f.some THEN "BadFd" ELSE "panic")
               /\ UNCHANGED <<files, orphans, handles, hist>>
    /\ panicked' = (panicked \/ ~handles[h].file.some)
    /\ UNCHANGED <<removes, ext>>

\* io::Read::read_to_end through file(): everything from the File's offset;
\* file() panics ("file must be valid") when the Option is None
read(h) ==
    /\ handles[h].state = "open"
    /\ LET f == handles[h].file
           d == FileData(files, orphans, handles, h)
       IN IF f.mode = "r"
          THEN /\ handles' = [handles EXCEPT
                      ![h].file.pos = IF @ < Len(d) THEN Len(d) ELSE @]
               /\ last' = [Event("read", h, file_path(h), "Ok")
                              EXCEPT !.pos = f.pos,
                                     !.data = SubSeq(d, f.pos + 1, Len(d))]
          ELSE /\ last' = Event("read", h, file_path(h),
                                IF f.some THEN "BadFd" ELSE "panic")
               /\ UNCHANGED handles
    /\ panicked' = (panicked \/ ~handles[h].file.some)
    /\ UNCHANGED <<files, orphans, removes, hist, ext>>

\* ------------------------------------------- actors outside the library
Touch(p, what) ==
    [q \in FsPaths |-> IF q = p /\ Owned(handles, p) /\ ext[p] # "deleted"
                     THEN what ELSE ext[q]]

ExtCreate(p, d) ==
    /\ p \in GoodPaths
    /\ ~Exists(files, p)
    /\ files' = [files EXCEPT ![p] = [origin |-> "ext", data |-> d]]
    /\ ext' = Touch(p, "changed")
    /\ last' = Event("ext_create", 0, p, "Ok")
    /\ UNCHANGED <<orphans, handles, removes, panicked, hist>>

ExtDelete(p) ==
    /\ Exists(files, p)
    /\ LET r == Unlink(files, orphans, handles, p) IN
       /\ files' = r.files
       /\ orphans' = r.orphans
       /\ handles' = r.handles
    /\ ext' = Touch(p, "deleted")
    /\ last' = Event("ext_delete", 0, p, "Ok")
    /\ UNCHANGED <<removes, panicked, hist>>

ExtWrite(p, d) ==
    /\ Exists(files, p)
    /\ files[p].data # d
    /\ files' = [files EXCEPT ![p].data = d]
    /\ ext' = Touch(p, "changed")
    /\ last' = Event("ext_write", 0, p, "Ok")
    /\ UNCHANGED <<orphans, handles, removes, panicked, hist>>

\* ------------------------------------------------------------ the builder

\* TempFileBuilder::new
new(u) ==
    /\ ~builder.live
    /\ builder' = TempFileBuilder(Push(temp_dir, create_tmp_file_name("temp", u)))
    /\ blast' = BuilderEvent("new", <<>>, <<>>)
    /\ UNCHANGED <<files, orphans, handles, removes, panicked, hist, ext, last>>

\* TempFileBuilder::file_path(p)
builder_file_path(s) ==
    /\ builder.live
    /\ builder' = [builder EXCEPT !.file_path = s]
    /\ blast' = BuilderEvent("file_path", s, builder.file_path)
    /\ UNCHANGED <<files, orphans, handles, removes, panicked, hist, ext, last>>

\* mutant: the new path is computed and dropped, as in the two methods below
with_parent_dirDiscarded(d) ==
    /\ builder.live
    /\ LET unused == Push(d, FileName(builder.file_path)) IN
       builder' = builder
    /\ blast' = BuilderEvent("with_parent_dir", d, builder.file_path)
    /\ UNCHANGED <<files, orphans, handles, removes, panicked, hist, ext, last>>

\* TempFileBuilder::with_parent_dir(d): d, then push of the old file name
with_parent_dir(d) ==
    /\ builder.live
    /\ builder' = [builder EXCEPT !.file_path = Push(d, FileName(@))]
    /\ blast' = BuilderEvent("with_parent_dir", d, builder.file_path)
    /\ UNCHANGED <<files, orphans, handles, removes, panicked, hist, ext, last>>

\* TempFileBuilder::with_file_name(n): Path::with_file_name returns a new
\* PathBuf, which the statement drops; self.file_path is not assigned
with_file_name(n) ==
    /\ builder.live
    /\ LET unused == WithFileName(builder.file_path, n) IN
       builder' = builder
    /\ blast' = BuilderEvent("with_file_name", n, builder.file_path)
    /\ UNCHANGED <<files, orphans, handles, removes, panicked, hist, ext, last>>

\* TempFileBuilder::with_extension(e): Path::with_extension returns a new
\* PathBuf, which the statement drops; self.file_path is not assigned
with_extension(e) ==
    /\ builder.live
    /\ LET unused == WithExtension(builder.file_path, e) IN
       builder' = builder
    /\ blast' = BuilderEvent("with_extension", e, builder.file_path)
    /\ UNCHANGED <<files, orphans, handles, removes, panicked, hist, ext, last>>

\* TempFileBuilder::build(self): the builder is consumed, its path goes to
\* TempFile::from_path
builder_build(h) ==
    /\ builder.live
    /\ from_path(h, Resolve(builder.file_path))
    /\ builder' = NoBuilder
    /\ UNCHANGED blast

Next ==
    \/ \E h \in Handles, p \in Paths : build(h, p) /\ UNCHANGED bvars
    \/ \E h \in Handles : close(h) /\ UNCHANGED bvars
    \/ \E h \in Handles : reopen(h) /\ UNCHANGED bvars
    \/ \E h \in Handles : drop(h) /\ UNCHANGED bvars
    \/ \E h \in Handles, b \in Bytes : write(h, b) /\ UNCHANGED bvars
    \/ \E h \in Handles : read(h) /\ UNCHANGED bvars
    \/ \E p \in Paths, d \in ExtData : ExtCreate(p, d) /\ UNCHANGED bvars
    \/ \E p \in Paths : ExtDelete(p) /\ UNCHANGED bvars
    \/ \E p \in Paths, d \in ExtData : ExtWrite(p, d) /\ UNCHANGED bvars

Spec == Init /\ [][Next]_vars

\* the builder on its own: any chain of its methods, ended by build()
PathInputs == {Push(<<d>>, n) : d \in Dirs, n \in InputNames}

BuilderNext ==
    \/ \E u \in Uuids : new(u)
    \/ \E s \in PathInputs : builder_file_path(s)
    \/ \E d \in Dirs : with_parent_dir(<<d>>)
    \/ \E n \in InputNames : with_file_name(n)
    \/ \E e \in Exts : with_extension(e)
    \/ \E h \in Handles : builder_build(h)

BuilderSpec == Init /\ [][BuilderNext]_vars

TypeOK ==
    /\ \A p \in FsPaths : p.dir \notin ExistingDirs => ~Exists(files, p)
    /\ \A h \in Handles : handles[h].state = "open" <=> handles[h].file.some
    /\ \A h \in Handles : handles[h].file.orphan # 0 =>
          /\ handles[h].file.some
          /\ handles[h].file.orphan <= h
          /\ handles[handles[h].file.orphan].file.orphan = handles[h].file.orphan
          /\ orphans[handles[h].file.orphan] # NoFile
    /\ \A h \in Handles : orphans[h] # NoFile => handles[h].file.orphan = h
    /\ \A p \in FsPaths : Len(files[p].data) <= MaxLen
    /\ \A h \in Handles : removes[h] <= 1

\* ------------------------------------------------------------------ claims

\* C1: creating a temp file at a path where a file already exists returns
\* AlreadyExists and leaves the existing file's contents as they were.
C1_ExclusiveCreate ==
    [][(last'.op = "create" /\ Exists(files, last'.path))
          => (last'.res = "AlreadyExists" /\ files' = files)]_vars

\* C2: right after a handle is discarded, in either state and after any
\* close/reopen cycles, no file exists at its path: an open-for-read there
\* fails with NotFound.
C2_DeletionOnDiscard ==
    last.op = "drop" =>
        /\ ~Exists(files, last.path)
        /\ FileOpen(files, last.path).res = "NotFound"

\* a handle that went through close and reopen was discarded while its file
\* was still there
C2_Witness ==
    /\ last.op = "drop" /\ last.existed /\ last.reopened
    /\ handles[last.h].state = "gone"

\* C3: every created handle issues delete-by-path exactly once over its
\* life: none while a value still owns it (close and successful reopen
\* issue none), one once no owning value remains, never two; and no delete
\* is issued on behalf of no handle.
C3_ExactlyOnce ==
    /\ removes[0] = 0
    /\ \A h \in Handles :
          /\ handles[h].state \in {"unused", "open", "closed"} => removes[h] = 0
          /\ handles[h].state = "gone" => removes[h] = 1

\* one handle died in a failed reopen and another was discarded after a
\* close/reopen cycle
C3_Witness ==
    /\ last.op = "drop" /\ last.reopened
    /\ \E h \in Handles : h # last.h /\ handles[h].state = "gone"
    /\ \A h \in Handles : removes[h] = 1

\* C4: bytes written through the handle of a created temp file, which is then
\* closed and reopened with no change to the file by an actor outside the
\* library, are exactly the bytes read through the reopened handle.
C4_RoundTrip ==
    (/\ last.op = "read" /\ last.res = "Ok" /\ last.pos = 0
     /\ ext[last.path] = "none")
        => last.data = hist[last.h].written

\* C5: reopen of a closed handle whose file is missing returns NotFound and
\* creates nothing: no file exists at the path afterwards.
C5_ReopenAfterExternalDelete ==
    (last.op = "reopen" /\ ~last.existed) =>
        /\ last.res = "NotFound"
        /\ ~Exists(files, last.path)

\* a reopen found its file deleted by an actor outside the library
C5_Witness ==
    /\ last.op = "reopen" /\ ~last.existed /\ last.ext = "deleted"
    /\ last.res = "NotFound"

\* C6: after a failed reopen the handle is still Closed, with its path, and
\* no delete-by-path has been issued for it.
C6_RetryAfterFailedReopen ==
    (last.op = "reopen" /\ last.res # "Ok") =>
        /\ handles[last.h].state = "closed"
        /\ file_path(last.h) = last.path
        /\ removes[last.h] = 0

\* C6 as amended: a failed reopen consumes the handle and discharges its
\* deletion obligation itself: no Closed value is left to retry with, and
\* delete-by-path for its path has been issued exactly once, by the reopen.
C6_FailedReopenConsumes ==
    (last.op = "reopen" /\ last.res # "Ok") =>
        /\ handles[last.h].state = "gone"
        /\ file_path(last.h) = last.path
        /\ last.rm # "-"
        /\ removes[last.h] = 1

\* a reopen failed on a handle that had been reopened before
C6_Witness ==
    /\ last.op = "reopen" /\ last.res = "NotFound" /\ last.reopened
    /\ handles[last.h].state = "gone"

\* C7: while a handle bound to a path is live and no actor outside the
\* library has deleted that path, a file exists there.
C7_FileAliveWhileHandleLives ==
    \A h \in Handles :
        (Live(h) /\ ext[file_path(h)] # "deleted")
            => Exists(files, file_path(h))

\* C8: a create that fails brings no handle into being, leaves the file
\* system as it was and issues no delete-by-path, then or later.
C8_FailedCreateLeavesNothing ==
    /\ [][(last'.op = "create" /\ last'.res # "Ok")
             => /\ last'.h = 0 /\ last'.rm = "-"
                /\ handles' = handles /\ hist' = hist
                /\ files' = files /\ orphans' = orphans
                /\ removes' = removes]_vars
    /\ [](removes[0] = 0)

\* a create failed while another handle was live
C8_Witness ==
    /\ last.op = "create" /\ last.res = "NotFound" /\ last.h = 0
    /\ \E h \in Handles : Live(h)

\* C9: no discard surfaces an error, and discarding a handle whose file is
\* already gone leaves the file system as it was.
C9_SilentCleanup ==
    /\ [][last'.op = "drop"
             => /\ last'.res = "Ok"
                /\ ~Exists(files, last'.path) => files' = files]_vars
    /\ [](~panicked)

\* a handle was discarded after an actor outside the library deleted its
\* file, so remove_file failed
C9_Witness ==
    /\ last.op = "drop" /\ last.rm = "NotFound" /\ last.ext = "deleted"
    /\ last.res = "Ok"

\* C10: the path of a live handle, Open or Closed, is the path it was
\* created at; close and reopen do not change it.
C10_PathImmutable ==
    /\ \A h \in Handles : Live(h) => file_path(h) = hist[h].created
    /\ last.op \in {"close", "reopen"} => file_path(last.h) = last.path

\* a handle is Closed again after a close/reopen cycle
C10_Witness ==
    \E h \in Handles :
        /\ handles[h].state = "closed" /\ hist[h].reopened
        /\ hist[h].created \in GoodPaths

\* C11: after with_parent_dir(D) on a builder whose path has a file name N,
\* the builder's path, and the path build() then creates at, has directory D
\* and file name N, extension included.
C11_WithParentDir ==
    (blast.op = "with_parent_dir" /\ FileName(blast.before) # <<>>) =>
        /\ builder.live =>
              /\ Parent(builder.file_path) = blast.arg
              /\ FileName(builder.file_path) = FileName(blast.before)
        /\ (~builder.live /\ last.res = "Ok") =>
              /\ <<file_path(last.h).dir>> = blast.arg
              /\ file_path(last.h).name = FileName(blast.before)
              /\ Extension(file_path(last.h).name)
                    = Extension(FileName(blast.before))

\* build() created a file in a directory other than the one the builder's
\* path had before with_parent_dir, under a name with an extension
C11_Witness ==
    /\ blast.op = "with_parent_dir" /\ ~builder.live
    /\ last.op = "create" /\ last.res = "Ok"
    /\ Parent(blast.before) # blast.arg
    /\ Extension(FileName(blast.before)) # <<>>
    /\ Exists(files, [dir |-> blast.arg[1], name |-> FileName(blast.before)])

\* C12: after with_extension(E) the builder's path, and the path build()
\* then creates at, has extension E, with directory and file stem as before.
C12_WithExtension ==
    (blast.op = "with_extension" /\ FileName(blast.before) # <<>>) =>
        /\ builder.live =>
              /\ Extension(FileName(builder.file_path)) = blast.arg
              /\ Parent(builder.file_path) = Parent(blast.before)
              /\ FileStem(FileName(builder.file_path))
                    = FileStem(FileName(blast.before))
        /\ (~builder.live /\ last.res = "Ok") =>
              /\ Extension(file_path(last.h).name) = blast.arg
              /\ <<file_path(last.h).dir>> = Parent(blast.before)
              /\ FileStem(file_path(last.h).name)
                    = FileStem(FileName(blast.before))

\* C13: after with_file_name(N) the builder's path, and the path build()
\* then creates at, has file name N, with its directory as before.
C13_WithFileName ==
    blast.op = "with_file_name" =>
        /\ builder.live =>
              /\ FileName(builder.file_path) = blast.arg
              /\ Parent(builder.file_path) = Parent(blast.before)
        /\ (~builder.live /\ last.res = "Ok") =>
              /\ file_path(last.h).name = blast.arg
              /\ <<file_path(last.h).dir>> = Parent(blast.before)

\* C14: for each path at most one live value, TempFile or ClosedTempFile,
\* holds the obligation to delete it.
C14_SingleOwnerPerPath ==
    \A g, h \in Handles :
        (Live(g) /\ Live(h) /\ file_path(g) = file_path(h)) => g = h

\* C15: a handle is Open exactly when it holds a File and Closed handles hold
\* none; close takes an Open handle to Closed; reopen takes a Closed handle,
\* to Open when it succeeds; file() and file_mut() never panic.
C15_TwoStates ==
    /\ [](/\ \A h \in Handles :
               /\ handles[h].state \in {"unused", "open", "closed", "gone"}
               /\ handles[h].state = "open" <=> handles[h].file.some
          /\ last.op = "close" =>
               handles[last.h].state = "closed" /\ ~handles[last.h].file.some
          /\ (last.op = "reopen" /\ last.res = "Ok") =>
               handles[last.h].state = "open"
          /\ last.op \in {"read", "write"} => last.res # "panic")
    /\ [][/\ last'.op = "close" => handles[last'.h].state = "open"
          /\ last'.op = "reopen" => handles[last'.h].state = "closed"]_vars

\* a read through the File of a reopened handle succeeded
C15_Witness ==
    /\ last.op = "read" /\ last.res = "Ok"
    /\ handles[last.h].state = "open" /\ handles[last.h].file.mode = "r"

\* C16: whenever delete-by-path is issued for a handle, the handle no longer
\* holds its File: a discarded TempFile closes the File first.
C16_CloseBeforeRemove ==
    last.rm # "-" => ~last.held

\* an Open handle was discarded and its file removed
C16_Witness ==
    /\ last.op = "drop" /\ last.wasOpen /\ last.rm = "Ok"
    /\ ~last.held

\* C17: no call into the library truncates, changes or deletes a file that
\* an actor outside the library created: a file that was at the target path
\* before build() is there with the same contents after the build attempt
\* and after every later discard.
C17_OnlyOwnFiles ==
    [][last'.op \in {"create", "close", "reopen", "drop", "read", "write"}
          => \A p \in FsPaths :
                files[p].origin = "ext" => files'[p] = files[p]]_vars

====
